---- MODULE Spec2Model ----
(***************************************************************************)
(* A state-machine model of main.py: loading the antenna*.s2p files        *)
(* (load_antenna_files), the Smith-chart grid (plot_smith_charts), the     *)
(* visualisation driver (visualize_all_antennas), the nearest-sample       *)
(* analysis (analyze_frequency_response) and the script body (__main__).   *)
(*                                                                         *)
(* Representation.  A file is [stem, ok, f, s]: stem is the sequence of    *)
(* characters the "*" of antenna*.s2p matched (the prefix "antenna" holds  *)
(* no digit and the extension is not part of Path.stem), ok says whether   *)
(* rf.Network(file) returns or raises, f is the frequency array and s the  *)
(* S11 trace of the network the file holds.  A network is [name, f, s].    *)
(* Frequencies are integers in units of 0.8 GHz, so the default target of  *)
(* 2.4e9 Hz is 3.  An S11 sample is held as the value 20*log10(|s11|)      *)
(* takes on it, an integer number of dB; the phase, which no branch of the *)
(* program reads, is left out.  Python's 0-based indices are kept: element *)
(* k of a Python list is element k+1 of the TLA+ sequence.                 *)
(***************************************************************************)
EXTENDS Integers, Sequences, FiniteSets, TLC

VARIABLES
    directory,     \* the files matching antenna*.s2p, in the order glob lists them
    s2p_files,     \* load_antenna_files: the local list s2p_files
    networks,      \* the list of networks being built, returned or analysed
    file_idx,      \* load_antenna_files: position of the for loop (1-based)
    printed,       \* the lines load_antenna_files has printed
    caller,        \* who called load_antenna_files / analyze_frequency_response
    pc,            \* the statement the script is at
    err,           \* the exception that ended the script, "" when none
    viz_result,    \* what visualize_all_antennas returned
    n_cols,        \* plot_smith_charts: n_cols
    n_rows,        \* plot_smith_charts: n_rows
    subplots,      \* plot_smith_charts: the subplot positions drawn so far
    target,        \* analyze_frequency_response: target_freq
    i,             \* the enumerate() index of the running for loop (0-based)
    records,       \* the per-antenna reports analyze_frequency_response printed
    prev_records,  \* the reports of the previous call of the analysis
    run,           \* how many times the analysis has been called
    given          \* the collection as the caller handed it to the analysis

vars == <<directory, s2p_files, networks, file_idx, printed, caller, pc, err,
          viz_result, n_cols, n_rows, subplots, target, i, records,
          prev_records, run, given>>

loadV == <<s2p_files, file_idx, printed>>
vizV == <<viz_result, n_cols, n_rows, subplots>>
anaV == <<target, records>>
runV == <<prev_records, run, given>>

(***************************************************************************)
(* Bounds of the model.                                                    *)
(***************************************************************************)
MaxFiles == 2   \* files in the directory of the whole-script specification
MaxDir == 7     \* files in the directory of the visualisation specification
MaxNets == 2    \* networks in a collection handed to the analysis
MaxRuns == 2    \* calls of the analysis on one collection

Min(a, b) == IF a <= b THEN a ELSE b

Abs(x) == IF x < 0 THEN -x ELSE x

(***************************************************************************)
(* The sort key of load_antenna_files:                                     *)
(*     int(''.join(filter(str.isdigit, Path(x).stem)))                     *)
(***************************************************************************)
Digits == {"0", "1", "2", "3", "4", "5", "6", "7", "8", "9"}

IsDigit(c) == c \in Digits

DigitVal(c) ==
    CASE c = "0" -> 0 [] c = "1" -> 1 [] c = "2" -> 2 [] c = "3" -> 3
      [] c = "4" -> 4 [] c = "5" -> 5 [] c = "6" -> 6 [] c = "7" -> 7
      [] c = "8" -> 8 [] c = "9" -> 9

DigitsOf(stem) == SelectSeq(stem, IsDigit)

RECURSIVE ParseInt(_)
ParseInt(ds) ==
    IF ds = <<>> THEN 0
    ELSE 10 * ParseInt(SubSeq(ds, 1, Len(ds) - 1)) + DigitVal(ds[Len(ds)])

\* int('') raises ValueError: a stem without a digit has no key.
KeyRaises(stem) == DigitsOf(stem) = <<>>

StemKey(stem) == ParseInt(DigitsOf(stem))

\* list.sort is stable: an element goes after every element whose key is not
\* larger than its own.
RECURSIVE InsertByKey(_, _)
InsertByKey(file, sorted) ==
    IF sorted = <<>> THEN <<file>>
    ELSE IF StemKey(sorted[Len(sorted)].stem) <= StemKey(file.stem)
         THEN Append(sorted, file)
         ELSE Append(InsertByKey(file, SubSeq(sorted, 1, Len(sorted) - 1)),
                     sorted[Len(sorted)])

RECURSIVE StableSort(_)
StableSort(files) ==
    IF files = <<>> THEN <<>>
    ELSE InsertByKey(files[Len(files)],
                     StableSort(SubSeq(files, 1, Len(files) - 1)))

UnsortedFiles(files) == files

SortedFiles(files) == StableSort(files)

(***************************************************************************)
(* The body of the for loop of load_antenna_files.                         *)
(***************************************************************************)
NetworkOf(file) == [name |-> file.stem, f |-> file.f, s |-> file.s]

NetworksAfterPartialLoad(nets, file) ==
    IF file.ok THEN Append(nets, NetworkOf(file))
    ELSE Append(nets, [name |-> file.stem, f |-> <<>>, s |-> <<>>])

NetworksAfterLoad(nets, file) ==
    IF file.ok THEN Append(nets, NetworkOf(file)) ELSE nets

PrintedOnSuccessOnly(lines, file) ==
    IF file.ok THEN Append(lines, [msg |-> "Loaded", name |-> file.stem])
    ELSE lines

PrintedAfterLoad(lines, file) ==
    IF file.ok THEN Append(lines, [msg |-> "Loaded", name |-> file.stem])
    ELSE Append(lines, [msg |-> "Error loading", name |-> file.stem])

\* What load_antenna_files hands back to its caller: the list, nothing else.
LoadReturnValue == networks

(***************************************************************************)
(* The grid of plot_smith_charts.                                          *)
(***************************************************************************)
MaxColumns == 3

GridCols(n) == Min(MaxColumns, n)

GridRowsTruncated(n, cols) == n \div cols

GridRows(n, cols) == (n - 1) \div cols + 1

(***************************************************************************)
(* The body of the for loop of analyze_frequency_response.                 *)
(***************************************************************************)
Distances(f, t) == [k \in 1..Len(f) |-> Abs(f[k] - t)]

\* numpy's argmin: one scan that keeps the first of the smallest values;
\* `best` and the result are 0-based.
RECURSIVE ArgminLastScan(_, _, _)
ArgminLastScan(d, k, best) ==
    IF k >= Len(d) THEN best
    ELSE ArgminLastScan(d, k + 1, IF d[k + 1] <= d[best + 1] THEN k ELSE best)

RECURSIVE ArgminScan(_, _, _)
ArgminScan(d, k, best) ==
    IF k >= Len(d) THEN best
    ELSE ArgminScan(d, k + 1, IF d[k + 1] < d[best + 1] THEN k ELSE best)

ArgminLast(d) == ArgminLastScan(d, 1, 0)

Argmin(d) == ArgminScan(d, 1, 0)

MagnitudeDb(s11) == s11

NearestOrDefault(ntwk, t) ==
    IF ntwk.f = <<>>
    THEN [raised |-> FALSE, freq_idx |-> 0, freq |-> 0, s11 |-> 0]
    ELSE LET idx == Argmin(Distances(ntwk.f, t))
         IN  [raised |-> FALSE, freq_idx |-> idx,
              freq |-> ntwk.f[idx + 1], s11 |-> ntwk.s[idx + 1]]

\* Lines 123-125; argmin of an empty array raises ValueError.
Nearest(ntwk, t) ==
    IF ntwk.f = <<>>
    THEN [raised |-> TRUE]
    ELSE LET idx == Argmin(Distances(ntwk.f, t))
         IN  [raised |-> FALSE, freq_idx |-> idx,
              freq |-> ntwk.f[idx + 1], s11 |-> ntwk.s[idx + 1]]

GoodBelow == -10

ModerateBelow == -6

ClassifyInclusive(magnitude_db) ==
    IF magnitude_db <= GoodBelow THEN "Good"
    ELSE IF magnitude_db <= ModerateBelow THEN "Moderate"
    ELSE "Poor"

Classify(magnitude_db) ==
    IF magnitude_db < GoodBelow THEN "Good"
    ELSE IF magnitude_db < ModerateBelow THEN "Moderate"
    ELSE "Poor"

ReportZeroBased(k, near) ==
    [antenna |-> k,
     freq_idx |-> near.freq_idx,
     freq |-> near.freq,
     magnitude_db |-> MagnitudeDb(near.s11),
     matching |-> Classify(MagnitudeDb(near.s11))]

\* The report printed for the network at enumerate() index k.
Report(k, near) ==
    [antenna |-> k + 1,
     freq_idx |-> near.freq_idx,
     freq |-> near.freq,
     magnitude_db |-> MagnitudeDb(near.s11),
     matching |-> Classify(MagnitudeDb(near.s11))]

FrequenciesShifted(f, t) == [k \in 1..Len(f) |-> f[k] - t]

\* ntwk.f - target_freq allocates a new array: ntwk.f is what it was.
FrequenciesAfterLookup(f, t) == f

(***************************************************************************)
(* load_antenna_files (lines 7-28), called from visualize_all_antennas     *)
(* (line 96, caller = "viz") and from the script body (line 152, caller =  *)
(* "main").                                                                *)
(***************************************************************************)
Raise(e) == pc' = "crashed" /\ err' = e

\* Line 13: glob lists the matching files.
Glob ==
    /\ pc = "glob"
    /\ s2p_files' = directory
    /\ pc' = "sort"
    /\ UNCHANGED <<directory, networks, file_idx, printed, caller, err, vizV,
                   anaV, i, runV>>

\* Lines 16-19: the keyed sort, which raises when a key cannot be computed,
\* then networks = [].
Sort ==
    /\ pc = "sort"
    /\ IF \E k \in 1..Len(s2p_files) : KeyRaises(s2p_files[k].stem)
       THEN /\ Raise("ValueError")
            /\ UNCHANGED <<s2p_files, networks, file_idx>>
       ELSE /\ s2p_files' = SortedFiles(s2p_files)
            /\ networks' = <<>>
            /\ file_idx' = 1
            /\ pc' = "load"
            /\ err' = err
    /\ UNCHANGED <<directory, printed, caller, vizV, anaV, i, runV>>

\* Lines 20-26: one iteration of the for loop, the try and its except.
LoadFile ==
    /\ pc = "load"
    /\ file_idx <= Len(s2p_files)
    /\ networks' = NetworksAfterLoad(networks, s2p_files[file_idx])
    /\ printed' = PrintedAfterLoad(printed, s2p_files[file_idx])
    /\ file_idx' = file_idx + 1
    /\ UNCHANGED <<directory, s2p_files, caller, pc, err, vizV, anaV, i, runV>>

\* Line 28: return networks.
LoadReturn ==
    /\ pc = "load"
    /\ file_idx > Len(s2p_files)
    /\ pc' = IF caller = "viz" THEN "viz_check" ELSE "main_check"
    /\ UNCHANGED <<directory, loadV, networks, caller, err, vizV, anaV, i, runV>>

(***************************************************************************)
(* visualize_all_antennas (lines 91-112) with plot_s_parameters_multi      *)
(* (lines 30-69) and plot_smith_charts (lines 71-89).                      *)
(***************************************************************************)
\* Lines 98-100: no network, a bare return (None).
VizCheck ==
    /\ pc = "viz_check"
    /\ IF networks = <<>>
       THEN viz_result' = "None" /\ pc' = "unpack"
       ELSE viz_result' = viz_result /\ pc' = "plot_s"
    /\ UNCHANGED <<directory, loadV, networks, caller, err, n_cols, n_rows,
                   subplots, anaV, i, runV>>

\* Line 103: the magnitude and phase plots; they read the networks only.
PlotSParameters ==
    /\ pc = "plot_s"
    /\ pc' = "smith_grid"
    /\ UNCHANGED <<directory, loadV, networks, caller, err, vizV, anaV, i, runV>>

\* Lines 75-81: the grid; // raises ZeroDivisionError on n_cols = 0.
SmithGrid ==
    /\ pc = "smith_grid"
    /\ n_cols' = GridCols(Len(networks))
    /\ IF n_cols' = 0
       THEN Raise("ZeroDivisionError") /\ UNCHANGED <<n_rows, subplots, i>>
       ELSE /\ n_rows' = GridRows(Len(networks), n_cols')
            /\ subplots' = <<>>
            /\ i' = 0
            /\ pc' = "smith_draw"
            /\ err' = err
    /\ UNCHANGED <<directory, loadV, networks, caller, viz_result, anaV, runV>>

\* Lines 83-86: one subplot; plt.subplot raises ValueError on a position
\* outside 1..n_rows*n_cols.
SmithDraw ==
    /\ pc = "smith_draw"
    /\ i < Len(networks)
    /\ IF i + 1 \in 1..(n_rows * n_cols)
       THEN /\ subplots' = Append(subplots, i + 1)
            /\ i' = i + 1
            /\ UNCHANGED <<pc, err>>
       ELSE Raise("ValueError") /\ UNCHANGED <<subplots, i>>
    /\ UNCHANGED <<directory, loadV, networks, caller, viz_result, n_cols,
                   n_rows, anaV, runV>>

\* Lines 88-89: the loop is over, return fig.
SmithReturn ==
    /\ pc = "smith_draw"
    /\ i = Len(networks)
    /\ pc' = "save"
    /\ UNCHANGED <<directory, loadV, networks, caller, err, vizV, anaV, i, runV>>

\* Lines 108-112: save both figures, return the pair.
SaveFigs ==
    /\ pc = "save"
    /\ viz_result' = "figures"
    /\ pc' = "unpack"
    /\ UNCHANGED <<directory, loadV, networks, caller, err, n_cols, n_rows,
                   subplots, anaV, i, runV>>

(***************************************************************************)
(* The script body (lines 144-159).                                        *)
(***************************************************************************)
\* Line 149: s_param_fig, smith_fig = <result>; unpacking None raises
\* TypeError.  Then line 152 calls load_antenna_files again.
Unpack ==
    /\ pc = "unpack"
    /\ IF viz_result = "None"
       THEN Raise("TypeError") /\ caller' = caller
       ELSE pc' = "glob" /\ caller' = "main" /\ err' = err
    /\ UNCHANGED <<directory, loadV, networks, vizV, anaV, i, runV>>

\* Lines 155-156: the analysis runs only on a non-empty list, with the
\* default target.
MainCheck ==
    /\ pc = "main_check"
    /\ IF networks # <<>>
       THEN /\ pc' = "analyze"
            /\ i' = 0
            /\ records' = <<>>
            /\ given' = networks
            /\ run' = 1
       ELSE pc' = "show" /\ UNCHANGED <<i, records, given, run>>
    /\ UNCHANGED <<directory, loadV, networks, caller, err, vizV, target,
                   prev_records>>

\* Line 159: plt.show().
ShowPlots ==
    /\ pc = "show"
    /\ pc' = "done"
    /\ UNCHANGED <<directory, loadV, networks, caller, err, vizV, anaV, i, runV>>

(***************************************************************************)
(* analyze_frequency_response (lines 114-142).                             *)
(***************************************************************************)
\* Lines 121-142: one iteration of the for loop.  The lookup comes first:
\* when it raises, nothing has been printed for this network.
AnalyzeOne ==
    /\ pc = "analyze"
    /\ i < Len(networks)
    /\ LET ntwk == networks[i + 1]
           near == Nearest(ntwk, target)
       IN  IF near.raised
           THEN Raise("ValueError") /\ UNCHANGED <<networks, i, records>>
           ELSE /\ networks' = [networks EXCEPT
                                  ![i + 1].f = FrequenciesAfterLookup(@, target)]
                /\ records' = Append(records, Report(i, near))
                /\ i' = i + 1
                /\ UNCHANGED <<pc, err>>
    /\ UNCHANGED <<directory, loadV, caller, vizV, target, runV>>

\* The loop is over: the function returns to its caller.
AnalyzeReturn ==
    /\ pc = "analyze"
    /\ i = Len(networks)
    /\ pc' = IF caller = "main" THEN "show" ELSE "returned"
    /\ UNCHANGED <<directory, loadV, networks, caller, err, vizV, anaV, i, runV>>

\* A caller that calls the analysis again on the same collection with the
\* same target.
Reanalyze ==
    /\ pc = "returned"
    /\ run < MaxRuns
    /\ prev_records' = records
    /\ records' = <<>>
    /\ i' = 0
    /\ run' = run + 1
    /\ pc' = "analyze"
    /\ UNCHANGED <<directory, loadV, networks, caller, err, vizV, target, given>>

(***************************************************************************)
(* The inputs.                                                             *)
(***************************************************************************)
\* 2.4e9 Hz in the model's unit of 0.8 GHz.
DefaultTarget == 3

Freqs == {2, 4, 6}

DbValues == {-11, -10, -6}

Targets == {3, 5}

RECURSIVE Ascending(_)
Ascending(S) ==
    IF S = {} THEN <<>>
    ELSE LET m == CHOOSE x \in S : \A y \in S : x <= y
         IN  <<m>> \o Ascending(S \ {m})

\* A network's frequencies are strictly increasing; every sample has its
\* own S11 value, one of dbs.
Traces(dbs) ==
    UNION {{[f |-> Ascending(S), s |-> s] : s \in [1..Cardinality(S) -> dbs]}
           : S \in SUBSET Freqs}

AnalysisPool == {[name |-> <<>>, f |-> tr.f, s |-> tr.s] : tr \in Traces(DbValues)}

\* The networks of the repeated analysis: the same frequency arrays, one
\* S11 value.
RerunPool == {[name |-> <<>>, f |-> tr.f, s |-> tr.s] : tr \in Traces({-11})}

SeqsUpTo(S, n) == UNION {[1..k -> S] : k \in 0..n}

\* The names the whole-script specification draws from: plain numbers, a
\* number of two digits, a leading zero (the key of "02" is that of "2"),
\* digits apart from each other, and no digit at all.
MainStems ==
    {<<"1">>, <<"2">>, <<"1", "0">>, <<"0", "2">>, <<"1", "_", "2">>, <<"_", "a">>}

MainFiles ==
    {[stem |-> st, ok |-> FALSE, f |-> <<>>, s |-> <<>>] : st \in MainStems}
    \cup {[stem |-> st, ok |-> TRUE, f |-> <<>>, s |-> <<>>] : st \in MainStems}
    \cup {[stem |-> st, ok |-> TRUE, f |-> <<2, 4>>, s |-> <<-11, -6>>] : st \in MainStems}
    \cup {[stem |-> st, ok |-> TRUE, f |-> <<4>>, s |-> <<-10>>] : st \in MainStems}

\* A directory holds no two files of one name.
DistinctNames(files) ==
    \A a, b \in 1..Len(files) : a # b => files[a].stem # files[b].stem

DigitChar(k) ==
    CASE k = 0 -> "0" [] k = 1 -> "1" [] k = 2 -> "2" [] k = 3 -> "3"
      [] k = 4 -> "4" [] k = 5 -> "5" [] k = 6 -> "6" [] k = 7 -> "7"
      [] k = 8 -> "8" [] k = 9 -> "9"

\* The directories of the visualisation specification: antenna<k>.s2p for
\* some of the k in 1..MaxDir, each loadable or not, listed from the
\* highest number down.
RECURSIVE Listing(_, _)
Listing(kind, k) ==
    IF k = 0 THEN <<>>
    ELSE (IF kind[k] = "absent" THEN <<>>
          ELSE <<[stem |-> <<DigitChar(k)>>, ok |-> kind[k] = "ok",
                  f |-> IF kind[k] = "ok" THEN <<2>> ELSE <<>>,
                  s |-> IF kind[k] = "ok" THEN <<-11>> ELSE <<>>]>>)
         \o Listing(kind, k - 1)

VizDirectories ==
    {Listing(kind, MaxDir) : kind \in [1..MaxDir -> {"absent", "ok", "bad"}]}

InitScript ==
    /\ s2p_files = <<>>
    /\ networks = <<>>
    /\ file_idx = 1
    /\ printed = <<>>
    /\ caller = "viz"
    /\ pc = "glob"
    /\ err = ""
    /\ viz_result = ""
    /\ n_cols = 0
    /\ n_rows = 0
    /\ subplots = <<>>
    /\ target = DefaultTarget
    /\ i = 0
    /\ records = <<>>
    /\ prev_records = <<>>
    /\ run = 0
    /\ given = <<>>

\* The script, started in a directory of at most MaxFiles matching files.
Init ==
    /\ directory \in {d \in SeqsUpTo(MainFiles, MaxFiles) : DistinctNames(d)}
    /\ InitScript

Next ==
    \/ Glob
    \/ Sort
    \/ LoadFile
    \/ LoadReturn
    \/ VizCheck
    \/ PlotSParameters
    \/ SmithGrid
    \/ SmithDraw
    \/ SmithReturn
    \/ SaveFigs
    \/ Unpack
    \/ MainCheck
    \/ AnalyzeOne
    \/ AnalyzeReturn
    \/ ShowPlots

Spec == Init /\ [][Next]_vars

\* visualize_all_antennas alone, in a directory of at most MaxDir files.
InitViz ==
    /\ directory \in VizDirectories
    /\ InitScript

NextViz ==
    \/ Glob
    \/ Sort
    \/ LoadFile
    \/ LoadReturn
    \/ VizCheck
    \/ PlotSParameters
    \/ SmithGrid
    \/ SmithDraw
    \/ SmithReturn
    \/ SaveFigs

SpecViz == InitViz /\ [][NextViz]_vars

InitCall(pool) ==
    /\ directory = <<>>
    /\ s2p_files = <<>>
    /\ networks \in SeqsUpTo(pool, MaxNets)
    /\ given = networks
    /\ file_idx = 1
    /\ printed = <<>>
    /\ caller = "call"
    /\ pc = "analyze"
    /\ err = ""
    /\ viz_result = ""
    /\ n_cols = 0
    /\ n_rows = 0
    /\ subplots = <<>>
    /\ target \in Targets
    /\ i = 0
    /\ records = <<>>
    /\ prev_records = <<>>
    /\ run = 1

\* analyze_frequency_response, called on a collection of at most MaxNets
\* networks with a target frequency.
InitAnalyze == InitCall(AnalysisPool)

NextAnalyze ==
    \/ AnalyzeOne
    \/ AnalyzeReturn

SpecAnalyze == InitAnalyze /\ [][NextAnalyze]_vars

\* The same call, made again (up to MaxRuns times) each time it returns.
InitRerun == InitCall(RerunPool)

NextRerun ==
    \/ AnalyzeOne
    \/ AnalyzeReturn
    \/ Reanalyze

SpecRerun == InitRerun /\ [][NextRerun]_vars

(***************************************************************************)
(* Properties of analyze_frequency_response.                               *)
(***************************************************************************)
Reported == 1..Len(records)

\* C1: every report classifies its magnitude_db as Good exactly when it is
\* below -10, Moderate exactly when it is at least -10 and below -6, and
\* Poor exactly when it is -6 or more; so -10 is Moderate, -6 is Poor and a
\* value has exactly one class.
C1_ClassificationThresholds ==
    \A k \in Reported :
        LET r == records[k]
        IN  /\ r.matching \in {"Good", "Moderate", "Poor"}
            /\ (r.matching = "Good") <=> (r.magnitude_db < -10)
            /\ (r.matching = "Moderate") <=>
                   (-10 <= r.magnitude_db /\ r.magnitude_db < -6)
            /\ (r.matching = "Poor") <=> (r.magnitude_db >= -6)

\* Both boundary values and a value below -10 have been classified.
C1_Witness ==
    /\ \E k \in Reported : records[k].magnitude_db = -10
    /\ \E k \in Reported : records[k].magnitude_db = -6
    /\ pc = "returned"

\* C2: the index a report was taken at minimizes abs(f[i] - target) over the
\* network's samples, no lower index reaches that distance, and the reported
\* frequency and S11 value are the network's values at that index.
C2_NearestLowestIndex ==
    \A k \in Reported :
        LET r == records[k]
            f == given[k].f
            at == r.freq_idx + 1
        IN  /\ at \in 1..Len(f)
            /\ \A j \in 1..Len(f) : Abs(f[at] - target) <= Abs(f[j] - target)
            /\ \A j \in 1..(at - 1) : Abs(f[j] - target) > Abs(f[at] - target)
            /\ r.freq = f[at]
            /\ r.magnitude_db = MagnitudeDb(given[k].s[at])

\* Frequencies [2, 4, 6] with the target halfway between 4 and 6 (the
\* second and third sample tie, the first is farther): index 1 is reported.
C2_Witness ==
    /\ target = 5
    /\ \E k \in Reported :
          /\ given[k].f = <<2, 4, 6>>
          /\ given[k].s = <<-11, -10, -6>>
          /\ records[k].freq_idx = 1
          /\ records[k].freq = 4
          /\ records[k].magnitude_db = -10

\* C3: the lookup on a network without a sample raises; no report is ever
\* printed for such a network, the analysis does not get past it, and an
\* analysis that stopped on an error stopped at such a network.
C3_EmptyNetworkRaises ==
    /\ \A k \in Reported : given[k].f # <<>>
    /\ \A k \in 1..i : networks[k].f # <<>>
    /\ pc = "returned" => \A k \in 1..Len(networks) : networks[k].f # <<>>
    /\ pc = "crashed" =>
          /\ err = "ValueError"
          /\ i < Len(networks)
          /\ networks[i + 1].f = <<>>
          /\ Len(records) = i

\* An empty network in second place: one report, then the error.
C3_Witness ==
    /\ pc = "crashed"
    /\ err = "ValueError"
    /\ Len(networks) = 2
    /\ networks[1].f # <<>>
    /\ networks[2].f = <<>>
    /\ Len(records) = 1

\* C4 as stated: when the analysis is over, returned or not, it has printed
\* exactly one report for each network of the collection.
C4_OneRecordPerNetwork ==
    pc \in {"returned", "crashed"} => Len(records) = Len(networks)

\* C4 as amended: the reports are one for each network before the first
\* network without a sample, in collection order, the k-th labelled k and
\* taken from the k-th network; the analysis returns only when there is no
\* such network, and then every network has its report.
C4_RecordsInOrderUpToFirstEmpty ==
    /\ Len(records) = i
    /\ \A k \in Reported :
          /\ records[k].antenna = k
          /\ given[k].f # <<>>
          /\ records[k].freq_idx \in 0..(Len(given[k].f) - 1)
          /\ records[k].freq = given[k].f[records[k].freq_idx + 1]
          /\ records[k].magnitude_db =
                 MagnitudeDb(given[k].s[records[k].freq_idx + 1])
          /\ records[k].matching = Classify(records[k].magnitude_db)
    /\ pc = "returned" => Len(records) = Len(networks)
    /\ pc = "crashed" =>
          /\ Len(records) < Len(networks)
          /\ given[Len(records) + 1].f = <<>>

\* Two different networks, both reported, in order.
C4_Witness ==
    /\ pc = "returned"
    /\ Len(records) = 2
    /\ given[1].f = <<6>>
    /\ given[2].f = <<2, 4>>
    /\ records[1].freq = 6
    /\ records[2].freq \in {2, 4}

\* C8: the analysis leaves the networks as the caller handed them over, and
\* a second call on the same collection with the same target prints the
\* reports of the first call again, one by one.
C8_RepeatableAndReadOnly ==
    /\ networks = given
    /\ run >= 2 =>
          /\ Len(records) <= Len(prev_records)
          /\ \A k \in Reported : records[k] = prev_records[k]
    /\ (run >= 2 /\ pc = "returned") => records = prev_records

\* The second call has returned after two reports.
C8_Witness ==
    /\ run = 2
    /\ pc = "returned"
    /\ Len(records) = 2
    /\ Len(prev_records) = 2

(***************************************************************************)
(* Properties of load_antenna_files.                                       *)
(***************************************************************************)
IsOk(file) == file.ok

LoadedOf(files) ==
    LET good == SelectSeq(files, IsOk)
    IN  [k \in 1..Len(good) |-> NetworkOf(good[k])]

Attempted == SubSeq(s2p_files, 1, file_idx - 1)

LoadOver == pc \in {"viz_check", "main_check"}

\* C5: while the files are loaded, the list holds exactly the networks of
\* the files attempted so far that loaded, in the order attempted; a file
\* whose load raised adds nothing; and the function returns only when every
\* file has been attempted, with one printed line for each attempt.
C5_FailedFileSkipped ==
    /\ pc = "load" =>
          /\ networks = LoadedOf(Attempted)
          /\ file_idx <= Len(s2p_files) + 1
    /\ LoadOver =>
          /\ file_idx = Len(s2p_files) + 1
          /\ networks = LoadedOf(s2p_files)
          /\ \A k \in 1..Len(s2p_files) :
                printed[Len(printed) - Len(s2p_files) + k].name = s2p_files[k].stem

\* The first file failed, the second loaded and is the one network returned.
C5_Witness ==
    /\ pc = "main_check"
    /\ Len(s2p_files) = 2
    /\ ~s2p_files[1].ok
    /\ s2p_files[2].ok
    /\ networks = <<NetworkOf(s2p_files[2])>>

\* C6 as stated: every discovered file is accounted for in what the loader
\* returns.  The return value is the list of networks and holds no list of
\* failures, so the file has to be one of the networks returned.
C6_EveryFileInReturnValue ==
    LoadOver =>
        \A k \in 1..Len(s2p_files) :
            \E j \in 1..Len(LoadReturnValue) :
                LoadReturnValue[j].name = s2p_files[k].stem

\* C6 as amended: the loader returns the loaded networks only; every
\* discovered file is either one of them, with a "Loaded" line printed, or
\* absent from the return value, with an "Error loading" line printed.
C6_LoadedOrReportedOnStdout ==
    LoadOver =>
        \A k \in 1..Len(s2p_files) :
            LET file == s2p_files[k]
                returned == \E j \in 1..Len(LoadReturnValue) :
                                LoadReturnValue[j].name = file.stem
                said(m) == \E j \in 1..Len(printed) :
                                printed[j] = [msg |-> m, name |-> file.stem]
            IN  /\ file.ok => (returned /\ said("Loaded") /\ ~said("Error loading"))
                /\ ~file.ok => (~returned /\ said("Error loading") /\ ~said("Loaded"))

\* A file that failed, after one that loaded, is in the printed lines only.
C6_Witness ==
    /\ pc = "viz_check"
    /\ Len(s2p_files) = 2
    /\ s2p_files[1].ok
    /\ ~s2p_files[2].ok
    /\ Len(LoadReturnValue) = 1
    /\ printed[2] = [msg |-> "Error loading", name |-> s2p_files[2].stem]

SortOver ==
    pc \in {"load", "viz_check", "plot_s", "smith_grid", "smith_draw", "save",
            "unpack", "main_check", "analyze", "show", "done"}

\* C7: once sorted, the files are attempted in non-decreasing order of the
\* integer read from the digits of the stem, and so are the networks in the
\* list, at every moment and when it is returned.
C7_SortedByAntennaNumber ==
    /\ SortOver =>
          \A a, b \in 1..Len(s2p_files) :
              a < b => StemKey(s2p_files[a].stem) <= StemKey(s2p_files[b].stem)
    /\ \A a, b \in 1..Len(networks) :
          a < b => StemKey(networks[a].name) <= StemKey(networks[b].name)

\* antenna10 was listed before antenna2; antenna2's network comes first.
C7_Witness ==
    /\ pc = "main_check"
    /\ Len(directory) = 2
    /\ directory[1].stem = <<"1", "0">>
    /\ directory[2].stem = <<"2">>
    /\ Len(networks) = 2
    /\ networks[1].name = <<"2">>
    /\ networks[2].name = <<"1", "0">>

(***************************************************************************)
(* Properties of the script and of plot_smith_charts.                      *)
(***************************************************************************)
\* C9: the script never stops on an uncaught error, whatever the directory
\* holds.
C9_NoUncaughtError == pc # "crashed"

GridSet == pc \in {"smith_draw", "save"} \/ (pc = "unpack" /\ viz_result = "figures")

\* C10: plot_smith_charts is entered with n >= 1 networks and never divides
\* by zero; its grid has min(3, n) columns and (n - 1) div n_cols + 1 rows,
\* with n_rows * n_cols >= n > (n_rows - 1) * n_cols; network i is drawn at
\* position i + 1, within 1..n_rows * n_cols, and no position is used twice.
C10_SmithGrid ==
    /\ pc \in {"plot_s", "smith_grid"} => Len(networks) >= 1
    /\ err # "ZeroDivisionError"
    /\ GridSet =>
          LET n == Len(networks)
          IN  /\ n >= 1
              /\ n_cols = Min(3, n)
              /\ n_rows = (n - 1) \div n_cols + 1
              /\ n_rows * n_cols >= n
              /\ n > (n_rows - 1) * n_cols
              /\ Len(subplots) = i
              /\ \A k \in 1..Len(subplots) :
                    /\ subplots[k] = k
                    /\ subplots[k] \in 1..(n_rows * n_cols)
              /\ \A a, b \in 1..Len(subplots) :
                    a # b => subplots[a] # subplots[b]
              /\ pc # "smith_draw" => Len(subplots) = n

\* Seven networks drawn on three rows of three.
C10_Witness ==
    /\ pc = "save"
    /\ Len(networks) = 7
    /\ n_cols = 3
    /\ n_rows = 3
    /\ subplots = <<1, 2, 3, 4, 5, 6, 7>>

====
